---------------------------- MODULE Spec2Model ----------------------------
(***************************************************************************)
(* Placement of 3D-shaped jobs on a WxLxH torus: tools/placement_lib.py    *)
(* (coordinate mapper, FirstFit, SpaceFillingCurve, L1Clustering) and the  *)
(* orchestrator of tools/place.py (capacity check, First-Fit path, block   *)
(* path, dump), with the node-id decoding of tools/build_torus.py.         *)
(***************************************************************************)
EXTENDS Integers, Naturals, Sequences, FiniteSets, TLC

VARIABLES
    dims,        \* <<W, L, H>> of the torus of the policy instance / the run
    policy,      \* the policy of the instance, or the --policy of the run
    grid,        \* self.grid: cell <<x,y,z>> -> 0 (free) / 1 (occupied)
    built,       \* whether the policy object was constructed
    call,        \* the last allocate call: shape, grid before, result
    pc,          \* position of the orchestrator (__main__ of place.py)
    jobs,        \* the parsed jobspec: sequence of [name, shape], file order
    bsize,       \* --block_size
    israndom,    \* --random
    nextjob,     \* index of the next job of the orchestrator's loop
    placement,   \* the placement dict: key string -> torus node index
    tblocks,     \* torus_blocks: sequence of blocks (sequences of indices)
    jblocks,     \* blocks of the jobs still to be assigned (sorted by name)
    nalloc,      \* number of allocate calls / block assignments of the run
    output,      \* the dumped table, or NotWritten
    err,         \* the error that ended the run, or NoError
    probe        \* coordinate-mapper probe: inputs and outputs

vars == <<dims, policy, grid, built, call, pc, jobs, bsize, israndom, nextjob,
          placement, tblocks, jblocks, nalloc, output, err, probe>>

(***************************************************************************)
(* Bounds of the model.                                                    *)
(***************************************************************************)
MaxDim == 3        \* torus dimensions of a policy instance are in 1..MaxDim
MaxCells == 8      \* ... with at most MaxCells cells
MaxShapeDim == 2   \* job-shape dimensions of an allocate call
MaxShapeVolume == 8    \* ... with at most MaxShapeVolume nodes

(***************************************************************************)
(* Small helpers.                                                          *)
(***************************************************************************)
Min2(a, b) == IF a <= b THEN a ELSE b
Max2(a, b) == IF a >= b THEN a ELSE b
Abs(a) == IF a < 0 THEN 0 - a ELSE a
Prod3(t) == t[1] * t[2] * t[3]

\* f evaluated once and for all (the same function, as a table).
Table(f) == f @@ <<>>

\* d[key] = value on a dict d
DictSet(p, key, value) == (key :> value) @@ p

\* len(range(0, n, B)) for n >= 0 and B # 0 (a negative step from 0 towards
\* n >= 0 visits nothing)
NumStarts(n, B) == IF B >= 1 THEN (n + B - 1) \div B ELSE 0

\* The cells of a grid np.zeros((W, L, H)): indices [x, y, z].
Cells(d) == (0..(d[1]-1)) \X (0..(d[2]-1)) \X (0..(d[3]-1))

\* Mutant: a run that follows another one starts from the grid the earlier
\* run left behind.
EmptyGrid_kept(d) ==
    IF DOMAIN probe = {} THEN [c \in Cells(d) |-> 0] ELSE probe.grid

\* np.zeros((W, L, H), dtype=int)
EmptyGrid(d) == [c \in Cells(d) |-> 0]

\* Python's None result of allocate, and a returned mapping.
NoneResult == [ok |-> FALSE, mapping |-> <<>>]
SomeResult(m) == [ok |-> TRUE, mapping |-> m]

(***************************************************************************)
(* Coordinate mapper.                                                      *)
(***************************************************************************)
\* Mutant: the row stride taken from L instead of W.
coord_to_linear_index_swapped(x, y, z, d) == (z * d[2] * d[1]) + (y * d[2]) + x

coord_to_linear_index(x, y, z, d) == (z * d[2] * d[1]) + (y * d[1]) + x

(***************************************************************************)
(* FirstFit.                                                               *)
(***************************************************************************)
RECURSIVE SumAlong(_, _, _, _)
\* Sum of g over the cells c with c[axis] replaced by 0..n (one cumsum entry).
SumAlong(g, c, axis, n) ==
    IF n < 0 THEN 0
    ELSE g[[c EXCEPT ![axis] = n]] + SumAlong(g, c, axis, n - 1)

\* ndarray.cumsum(axis=axis-1)
cumsum(g, axis) ==
    Table([c \in DOMAIN g |-> SumAlong(g, c, axis, c[axis])])

\* FirstFit._get_integral_volume
get_integral_volume(g) == cumsum(cumsum(cumsum(g, 1), 2), 3)

\* Mutant: get_val without its test for negative indices, which Python
\* then counts from the end of the axis.
get_val_wrapping(integral, i, j, k) ==
    LET n(axis) == Cardinality({c[axis] : c \in DOMAIN integral})
    IN integral[<<i % n(1), j % n(2), k % n(3)>>]

\* get_val of FirstFit._is_free
get_val(integral, i, j, k) ==
    IF i < 0 \/ j < 0 \/ k < 0 THEN 0 ELSE integral[<<i, j, k>>]

\* FirstFit._is_free
is_free(integral, start, size) ==
    LET x == start[1]  y == start[2]  z == start[3]
        x1 == x + size[1] - 1
        y1 == y + size[2] - 1
        z1 == z + size[3] - 1
        res == get_val(integral, x1, y1, z1)
               - get_val(integral, x - 1, y1, z1)
               - get_val(integral, x1, y - 1, z1)
               - get_val(integral, x1, y1, z - 1)
               + get_val(integral, x - 1, y - 1, z1)
               + get_val(integral, x - 1, y1, z - 1)
               + get_val(integral, x1, y - 1, z - 1)
               - get_val(integral, x - 1, y - 1, z - 1)
    IN res = 0

\* The origins the three nested loops of find_placement visit, in order:
\* z outermost, then y, then x.  nx, ny, nz are the lengths of the ranges.
\* Mutant: x outermost and z innermost.
ScanOriginXMajor(n, nx, ny, nz) ==
    <<n \div (ny * nz), (n \div nz) % ny, n % nz>>

ScanOrigin(n, nx, ny, nz) == <<n % nx, (n \div nx) % ny, n \div (nx * ny)>>

RECURSIVE ScanFrom(_, _, _, _, _, _)
ScanFrom(integral, size, n, nx, ny, nz) ==
    IF n >= nx * ny * nz THEN <<>>
    ELSE IF is_free(integral, ScanOrigin(n, nx, ny, nz), size)
         THEN ScanOrigin(n, nx, ny, nz)
         ELSE ScanFrom(integral, size, n + 1, nx, ny, nz)

\* FirstFit.find_placement: <<>> stands for None.
find_placement(g, d, size) ==
    LET nx == Max2(0, d[1] - size[1] + 1)
        ny == Max2(0, d[2] - size[2] + 1)
        nz == Max2(0, d[3] - size[3] + 1)
    IN ScanFrom(get_integral_volume(g), size, 0, nx, ny, nz)

\* The n-th (a, b, c) of the loops "for c / for b / for a" of allocate.
LoopCoord(n, size) ==
    <<n % size[1], (n \div size[1]) % size[2], n \div (size[1] * size[2])>>

RECURSIVE FFFill_nomark(_, _, _, _, _, _)
\* Mutant: the loop body without "self.grid[px, py, pz] = 1".
FFFill_nomark(g, m, d, origin, size, n) ==
    IF n >= Prod3(size) THEN [grid |-> g, mapping |-> m]
    ELSE LET abc == LoopCoord(n, size)
             job_idx == coord_to_linear_index(abc[1], abc[2], abc[3], size)
             torus_idx == coord_to_linear_index(origin[1] + abc[1],
                                                origin[2] + abc[2],
                                                origin[3] + abc[3], d)
         IN FFFill_nomark(g, DictSet(m, job_idx, torus_idx),
                          d, origin, size, n + 1)

RECURSIVE FFFill(_, _, _, _, _, _)
\* The loop body of FirstFit.allocate from iteration n on: marks the cell
\* and records mapping[job_idx] = torus_idx.
FFFill(g, m, d, origin, size, n) ==
    IF n >= Prod3(size) THEN [grid |-> g, mapping |-> m]
    ELSE LET abc == LoopCoord(n, size)
             px == origin[1] + abc[1]
             py == origin[2] + abc[2]
             pz == origin[3] + abc[3]
             job_idx == coord_to_linear_index(abc[1], abc[2], abc[3], size)
             torus_idx == coord_to_linear_index(px, py, pz, d)
         IN FFFill([g EXCEPT ![<<px, py, pz>>] = 1],
                   DictSet(m, job_idx, torus_idx),
                   d, origin, size, n + 1)

\* Mutant: the origin is tested by its coordinates, as "not any(origin)".
not_origin_zero(origin) == origin = <<>> \/ origin = <<0, 0, 0>>

\* "if not origin": true of None only; a tuple of three coordinates is
\* truthy whatever the coordinates are, (0, 0, 0) included.
not_origin(origin) == origin = <<>>

\* Mutant: the box is marked on a fresh all-free grid, not on self.grid.
FirstFit_allocate_fresh(g, d, shape) ==
    LET origin == find_placement(g, d, shape)
    IN IF not_origin(origin)
       THEN [grid |-> g, res |-> NoneResult, origin |-> origin]
       ELSE LET f == FFFill([c \in DOMAIN g |-> 0], <<>>, d, origin, shape, 0)
            IN [grid |-> f.grid, res |-> SomeResult(f.mapping),
                origin |-> origin]

\* FirstFit.allocate: the grid after the call and the result.
FirstFit_allocate(g, d, shape) ==
    LET origin == find_placement(g, d, shape)
    IN IF not_origin(origin)
       THEN [grid |-> g, res |-> NoneResult, origin |-> origin]
       ELSE LET f == FFFill(g, <<>>, d, origin, shape, 0)
            IN [grid |-> f.grid, res |-> SomeResult(f.mapping),
                origin |-> origin]

(***************************************************************************)
(* SpaceFillingCurve: the Hilbert curve of hilbertcurve.HilbertCurve(P, 3) *)
(* (Skilling's transpose algorithm), as the policy uses it.                *)
(***************************************************************************)
RECURSIVE BitXor(_, _)
BitXor(a, b) ==
    IF a = 0 THEN b
    ELSE IF b = 0 THEN a
    ELSE (((a % 2) + (b % 2)) % 2) + 2 * BitXor(a \div 2, b \div 2)

RECURSIVE BitAnd(_, _)
BitAnd(a, b) ==
    IF a = 0 \/ b = 0 THEN 0
    ELSE ((a % 2) * (b % 2)) + 2 * BitAnd(a \div 2, b \div 2)

RECURSIVE Pow2(_)
Pow2(n) == IF n <= 0 THEN 1 ELSE 2 * Pow2(n - 1)

RECURSIVE CeilLog2From(_, _)
CeilLog2From(n, p) == IF Pow2(p) >= n THEN p ELSE CeilLog2From(n, p + 1)

\* math.ceil(math.log2(n)) for n >= 1
CeilLog2(n) == CeilLog2From(n, 0)

\* P of SpaceFillingCurve.__init__
sfc_order(d) == CeilLog2(Max2(d[1], Max2(d[2], d[3])))

\* HilbertCurve.__init__ raises ValueError unless p > 0, so the policy object
\* exists only when the largest torus dimension is at least 2.
sfc_constructible(d) == sfc_order(d) > 0

\* One pass "for i in range(n)" of the inverse-undo loop, from index i on
\* (points are 1-based here: pt[1] is the library's point[0]).
RECURSIVE UndoPass(_, _, _)
UndoPass(pt, q, i) ==
    IF i > 3 THEN pt
    ELSE IF BitAnd(pt[i], q) # 0
         THEN UndoPass([pt EXCEPT ![1] = BitXor(pt[1], q - 1)], q, i + 1)
         ELSE LET t == BitAnd(BitXor(pt[1], pt[i]), q - 1)
                  p1 == [pt EXCEPT ![1] = BitXor(pt[1], t)]
                  p2 == [p1 EXCEPT ![i] = BitXor(p1[i], t)]
              IN UndoPass(p2, q, i + 1)

RECURSIVE InverseUndo(_, _)
\* "while q > 1: ...; q >>= 1"
InverseUndo(pt, q) ==
    IF q <= 1 THEN pt ELSE InverseUndo(UndoPass(pt, q, 1), q \div 2)

RECURSIVE GrayT(_, _, _)
\* "t = 0; while q > 1: if point[n-1] & q: t ^= q - 1; q >>= 1"
GrayT(last, q, t) ==
    IF q <= 1 THEN t
    ELSE GrayT(last, q \div 2,
               IF BitAnd(last, q) # 0 THEN BitXor(t, q - 1) ELSE t)

\* Bit b (0 = least significant) of v.
Bit(v, b) == (v \div Pow2(b)) % 2

RECURSIVE Interleave(_, _, _)
\* _transposed_index_to_hilbert_integer: the bits of x[0], x[1], x[2]
\* interleaved, most significant first; k counts the bits still to emit.
Interleave(x, p, k) ==
    IF k = 0 THEN 0
    ELSE LET pos == 3 * p - k          \* position in the bit string
             b == p - 1 - (pos \div 3) \* bit of the coordinate
             i == (pos % 3) + 1         \* coordinate
         IN (Bit(x[i], b) * Pow2(k - 1)) + Interleave(x, p, k - 1)

\* HilbertCurve.distance_from_point
distance_from_point(point, p) ==
    LET m == Pow2(p - 1)
        u == InverseUndo(point, m)
        g2 == BitXor(u[2], u[1])
        g3 == BitXor(u[3], g2)
        t == GrayT(g3, m, 0)
        x == <<BitXor(u[1], t), BitXor(g2, t), BitXor(g3, t)>>
    IN Interleave(x, p, 3 * p)

\* _hilbert_integer_to_transpose: x[i] = int(h_bit_str[i::n], 2)
Transpose(h, p) ==
    LET coord(i) ==
          LET RECURSIVE Acc(_)
              Acc(j) == IF j >= p THEN 0
                        ELSE (Bit(h, 3 * p - 1 - (3 * j + (i - 1)))
                               * Pow2(p - 1 - j)) + Acc(j + 1)
          IN Acc(0)
    IN <<coord(1), coord(2), coord(3)>>

RECURSIVE RedoPass(_, _, _)
\* "for i in range(n-1, -1, -1)" of point_from_distance
RedoPass(x, q, i) ==
    IF i < 1 THEN x
    ELSE IF BitAnd(x[i], q) # 0
         THEN RedoPass([x EXCEPT ![1] = BitXor(x[1], q - 1)], q, i - 1)
         ELSE LET t == BitAnd(BitXor(x[1], x[i]), q - 1)
                  x1 == [x EXCEPT ![1] = BitXor(x[1], t)]
                  x2 == [x1 EXCEPT ![i] = BitXor(x1[i], t)]
              IN RedoPass(x2, q, i - 1)

RECURSIVE Redo(_, _, _)
\* "q = 2; while q != z: ...; q <<= 1"
Redo(x, q, z) == IF q = z THEN x ELSE Redo(RedoPass(x, q, 3), 2 * q, z)

\* HilbertCurve.point_from_distance
point_from_distance(h, p) ==
    LET x == Transpose(h, p)
        t == x[3] \div 2
        y3 == BitXor(x[3], x[2])
        y2 == BitXor(x[2], x[1])
        y1 == BitXor(x[1], t)
    IN Redo(<<y1, y2, y3>>, 2, Pow2(p))

\* The curve orders the explored tori need, and the two conversions
\* tabulated once for them (the tables hold what the algorithms compute).
HilbertOrders == 1..CeilLog2(MaxDim)
HilbertCube(p) == (0..(Pow2(p) - 1)) \X (0..(Pow2(p) - 1)) \X (0..(Pow2(p) - 1))
DistanceTable ==
    Table([p \in HilbertOrders |->
        Table([pt \in HilbertCube(p) |-> distance_from_point(pt, p)])])
PointTable ==
    Table([p \in HilbertOrders |->
        Table([h \in 0..(Pow2(3 * p) - 1) |-> point_from_distance(h, p)])])

\* self.sfc.distances_from_points / points_from_distances, one entry
distances_from_points(pt, p) == DistanceTable[p][pt]
points_from_distances(h, p) == PointTable[p][h]

\* The index of cell <<x,y,z>> in grid.flatten() (C order of shape (W,L,H)).
FlatIndex(c, d) == (c[1] * d[2] * d[3]) + (c[2] * d[3]) + c[3]

\* self.coords[idx] of L1Clustering: np.indices((W,L,H)) stacked and reshaped.
coords(idx, d) == <<idx \div (d[2] * d[3]), (idx \div d[3]) % d[2], idx % d[3]>>

RECURSIVE FreeFlatFrom(_, _, _, _)
\* The flat indices lo..hi of the free cells, ascending: the row order of
\* np.argwhere(grid == 0) and the content of np.where(flatten() == 0)[0].
\* (The range is split in halves to keep the evaluation shallow.)
FreeFlatFrom(g, d, lo, hi) ==
    IF lo > hi THEN <<>>
    ELSE IF lo = hi
         THEN IF g[coords(lo, d)] = 0 THEN <<lo>> ELSE <<>>
         ELSE FreeFlatFrom(g, d, lo, (lo + hi) \div 2)
                  \o FreeFlatFrom(g, d, ((lo + hi) \div 2) + 1, hi)

FreeFlat(g, d) == FreeFlatFrom(g, d, 0, Prod3(d) - 1)

RECURSIVE Insert(_, _)
Insert(v, s) ==
    IF s = <<>> THEN <<v>>
    ELSE IF v <= Head(s) THEN <<v>> \o s
    ELSE <<Head(s)>> \o Insert(v, Tail(s))

RECURSIVE sorted(_)
\* Python's sorted() on a list of integers.
sorted(s) == IF s = <<>> THEN <<>> ELSE Insert(Head(s), sorted(Tail(s)))

\* Mutant: the Hilbert indices of all cells, not only of the free ones.
fetch_availability_all(g, d) ==
    sorted(Table([i \in 1..Prod3(d) |->
               distances_from_points(coords(i - 1, d), sfc_order(d))]))

\* Mutant: the Hilbert indices of the free cells in np.argwhere order,
\* without sorted().
fetch_availability_unsorted(g, d) ==
    LET free == FreeFlat(g, d)
    IN Table([i \in 1..Len(free) |->
                 distances_from_points(coords(free[i], d), sfc_order(d))])

\* SpaceFillingCurve._fetch_availability
fetch_availability(g, d) ==
    LET free == FreeFlat(g, d)
        distances == [i \in 1..Len(free) |->
                         distances_from_points(coords(free[i], d),
                                               sfc_order(d))]
    IN sorted(Table(distances))

RECURSIVE SFCFill_nomark(_, _, _, _, _, _)
\* Mutant: the loop without "self.grid[x, y, z] = 1".
SFCFill_nomark(g, m, d, alloc_coords, N, i) ==
    IF i >= N THEN [grid |-> g, mapping |-> m]
    ELSE LET c == alloc_coords[i + 1]
         IN SFCFill_nomark(g,
                DictSet(m, i, coord_to_linear_index(c[1], c[2], c[3], d)),
                d, alloc_coords, N, i + 1)

RECURSIVE SFCFill(_, _, _, _, _, _)
\* The loop "for i in range(N)" of SpaceFillingCurve.allocate from i on.
SFCFill(g, m, d, alloc_coords, N, i) ==
    IF i >= N THEN [grid |-> g, mapping |-> m]
    ELSE LET c == alloc_coords[i + 1]
         IN SFCFill([g EXCEPT ![c] = 1],
                    DictSet(m, i, coord_to_linear_index(c[1], c[2], c[3], d)),
                    d, alloc_coords, N, i + 1)

\* Mutant: the free cells are marked before their number is compared with N.
SpaceFillingCurve_allocate_marking(g, d, shape) ==
    LET N == Prod3(shape)
        available_indices == fetch_availability(g, d)
    IN IF Len(available_indices) < N
       THEN [grid |-> [c \in DOMAIN g |-> 1], res |-> NoneResult]
       ELSE LET alloc_coords ==
                    Table([i \in 1..N |->
                        points_from_distances(available_indices[i],
                                              sfc_order(d))])
                f == SFCFill(g, <<>>, d, alloc_coords, N, 0)
            IN [grid |-> f.grid, res |-> SomeResult(f.mapping)]

\* SpaceFillingCurve.allocate
SpaceFillingCurve_allocate(g, d, shape) ==
    LET N == Prod3(shape)
        available_indices == fetch_availability(g, d)
    IN IF Len(available_indices) < N
       THEN [grid |-> g, res |-> NoneResult]
       ELSE LET alloc_coords ==
                    Table([i \in 1..N |->
                        points_from_distances(available_indices[i],
                                              sfc_order(d))])
                f == SFCFill(g, <<>>, d, alloc_coords, N, 0)
            IN [grid |-> f.grid, res |-> SomeResult(f.mapping)]

(***************************************************************************)
(* L1Clustering.                                                           *)
(***************************************************************************)
\* Mutant: the difference taken without np.abs.
dist_per_dim_signed(q, center_coord, d) ==
    [i \in 1..3 |-> Min2(q[i] - center_coord[i],
                         d[i] - (q[i] - center_coord[i]))]

\* Mutant: the direct distance, without the wrap-around term.
dist_per_dim_direct(q, center_coord, d) ==
    [i \in 1..3 |-> Abs(q[i] - center_coord[i])]

\* One row of dist_per_dim in L1Clustering._get_torus_distance:
\* "diff = np.abs(self.coords - center_coord)" and
\* "np.minimum(diff, self.dims - diff)" for the cell q.
dist_per_dim(q, center_coord, d) ==
    [i \in 1..3 |-> Min2(Abs(q[i] - center_coord[i]),
                         d[i] - Abs(q[i] - center_coord[i]))]

\* One row of L1Clustering._get_torus_distance: the distance of the cell q
\* to center_coord, "np.sum(dist_per_dim, axis=1)".
get_torus_distance(q, center_coord, d) ==
    LET per == dist_per_dim(q, center_coord, d)
    IN per[1] + per[2] + per[3]

\* "step = max(1, len(idle_indices) // 100)"
l1_step(nidle) == Max2(1, nidle \div 100)

\* idle_distances for one center: position j -> distance of idle_indices[j].
l1_idle_distances(idle, center_idx, d) ==
    Table([j \in 1..Len(idle) |->
        get_torus_distance(coords(idle[j], d), coords(center_idx, d), d)])

RECURSIVE KthFrom(_, _, _)
\* The k-th smallest entry of dist (1 <= k <= Len(dist)), searched from t up:
\* the entry np.argpartition(idle_distances, k - 1) puts at position k - 1.
KthFrom(dist, k, t) ==
    IF Cardinality({j \in 1..Len(dist) : dist[j] <= t}) >= k THEN t
    ELSE KthFrom(dist, k, t + 1)

kth_smallest(dist, k) == KthFrom(dist, k, 0)

\* The position sets np.argpartition(idle_distances, k - 1)[:k] may return:
\* k positions none of which is farther than a position left out (which of
\* several equally distant positions are taken is up to the selection
\* algorithm); all positions when len(idle_distances) == k.
\* These are the sets made of every position closer than the k-th smallest
\* distance and of enough positions at exactly that distance.
l1_k_closest(dist, k) ==
    IF Len(dist) = k THEN {1..k}
    ELSE LET kth == kth_smallest(dist, k)
             closer == {j \in 1..Len(dist) : dist[j] < kth}
             ties == {j \in 1..Len(dist) : dist[j] = kth}
         IN {closer \cup T : T \in {T \in SUBSET ties :
                                      Cardinality(T) = k - Cardinality(closer)}}

RECURSIVE SumBelow(_, _)
\* The sum of the entries of dist that are smaller than t.
SumBelow(dist, t) ==
    IF t <= 0 THEN 0
    ELSE ((t - 1) * Cardinality({j \in 1..Len(dist) : dist[j] = t - 1}))
         + SumBelow(dist, t - 1)

\* current_cost: np.sum of the idle distances at the selected positions,
\* which is the sum of the k smallest idle distances (of all of them when
\* len(idle_distances) == k).
l1_cost(dist, k) ==
    LET kth == kth_smallest(dist, k)
        closer == Cardinality({j \in 1..Len(dist) : dist[j] < kth})
    IN SumBelow(dist, kth) + ((k - closer) * kth)

\* Mutant: "current_cost <= best_cost".
l1_improves_or_equal(current_cost, best_cost) == current_cost <= best_cost

\* "if current_cost < best_cost"
l1_improves(current_cost, best_cost) == current_cost < best_cost

\* The positions in idle_indices of the centers of idle_indices[::step], in
\* the order of the loop.
l1_centers(nidle) ==
    [n \in 1..((nidle + l1_step(nidle) - 1) \div l1_step(nidle)) |->
        1 + ((n - 1) * l1_step(nidle))]

RECURSIVE l1_best_from(_, _, _)
\* The loop "for center_idx in idle_indices[::step]" over the centers number
\* lo..hi, given the cost of each: the number of the center whose selection
\* is kept.  A later center replaces an earlier one only if l1_improves
\* holds of their costs, so the loop over lo..hi keeps what it keeps over
\* the first half unless the second half holds an improving center; the
\* range is split in halves to keep the evaluation shallow.
l1_best_from(costs, lo, hi) ==
    IF lo = hi THEN lo
    ELSE LET first == l1_best_from(costs, lo, (lo + hi) \div 2)
             second == l1_best_from(costs, ((lo + hi) \div 2) + 1, hi)
         IN IF l1_improves(costs[second], costs[first]) THEN second ELSE first

\* The position in idle_indices of the center whose selection is kept
\* (0: no center was evaluated, best_selection is None).
l1_best(idle, d, k) ==
    LET centers == l1_centers(Len(idle))
        costs == Table([n \in 1..Len(centers) |->
                     l1_cost(l1_idle_distances(idle, idle[centers[n]], d), k)])
    IN IF Len(centers) = 0 THEN 0
       ELSE centers[l1_best_from(costs, 1, Len(centers))]

\* The loop "for i, idx in enumerate(best_selection)": every pass marks the
\* cell self.coords[idx] and writes the key i; the passes write distinct
\* keys and only ever store 1, so the loop ends with every selected cell
\* marked and key i on the torus index of the i-th selected cell.
L1Fill(g, m, d, sel) ==
    LET cell(i) == coords(sel[i], d)
        marked == {cell(i) : i \in 1..Len(sel)}
    IN [grid |-> Table([c \in DOMAIN g |-> IF c \in marked THEN 1 ELSE g[c]]),
        mapping |->
            Table([i \in 0..(Len(sel) - 1) |->
                coord_to_linear_index(cell(i + 1)[1], cell(i + 1)[2],
                                      cell(i + 1)[3], d)]) @@ m]

\* Mutant: the selection ordered by torus linear index.
sorted_selection_by_torus_index(idle, S, d) ==
    LET lin(idx) == coord_to_linear_index(coords(idx, d)[1], coords(idx, d)[2],
                                          coords(idx, d)[3], d)
        L == {lin(idle[j]) : j \in S}
        flat(v) == FlatIndex(<<v % d[1], (v \div d[1]) % d[2],
                               v \div (d[1] * d[2])>>, d)
    IN [i \in 1..Cardinality(L) |->
           flat(CHOOSE v \in L : Cardinality({u \in L : u < v}) = i - 1)]

\* "best_selection = sorted(best_selection)" for the selection
\* idle_indices[k_closest_local_idx] at the positions S: the selected flat
\* indices, which are distinct, in ascending order.
sorted_selection(idle, S, d) ==
    LET sel == {idle[j] : j \in S}
    IN [i \in 1..Cardinality(sel) |->
           CHOOSE v \in sel : Cardinality({u \in sel : u < v}) = i - 1]

RECURSIVE SetToSeq(_)
SetToSeq(S) ==
    IF S = {} THEN <<>>
    ELSE LET v == CHOOSE v \in S : TRUE IN <<v>> \o SetToSeq(S \ {v})

\* Mutant: "len(idle_indices) <= k".
l1_too_few_or_equal(nidle, k) == nidle <= k

\* "if len(idle_indices) < k"
l1_too_few(nidle, k) == nidle < k

\* L1Clustering.allocate: the set of outcomes the call can have.
L1Clustering_allocate(g, d, shape) ==
    LET k == Prod3(shape)
        idle_indices == FreeFlat(g, d)
    IN IF l1_too_few(Len(idle_indices), k)
       THEN {[grid |-> g, res |-> NoneResult]}
       ELSE LET best == l1_best(idle_indices, d, k)
            IN IF best = 0
               THEN {[grid |-> g, res |-> NoneResult]}
               ELSE LET dist == l1_idle_distances(idle_indices,
                                                  idle_indices[best], d)
                    IN {LET best_selection ==
                                Table(sorted_selection(idle_indices, S, d))
                            f == L1Fill(g, <<>>, d, best_selection)
                        IN [grid |-> f.grid, res |-> SomeResult(f.mapping)]
                        : S \in l1_k_closest(dist, k)}

(***************************************************************************)
(* A policy instance under a sequence of allocate calls.                   *)
(***************************************************************************)
NotWritten == [written |-> FALSE, table |-> <<>>]
Written(t) == [written |-> TRUE, table |-> t]
NoError == [kind |-> "none"]
NoCall == [made |-> FALSE]

\* Torus dimensions and job shapes of the policy instances explored.
PolicyDims ==
    {d \in (1..MaxDim) \X (1..MaxDim) \X (1..MaxDim) : Prod3(d) <= MaxCells}
PolicyShapes ==
    {sh \in (1..MaxShapeDim) \X (1..MaxShapeDim) \X (1..MaxShapeDim) :
        Prod3(sh) <= MaxShapeVolume}
Policies == {"FirstFit", "SpaceFillingCurve", "L1Clustering"}

\* The variables of the orchestrator and of the probe, unused here.
IdleOrch ==
    /\ pc = "none" /\ jobs = <<>> /\ bsize = 0 /\ israndom = FALSE
    /\ nextjob = 0 /\ placement = <<>> /\ tblocks = <<>> /\ jblocks = <<>>
    /\ nalloc = 0 /\ output = NotWritten /\ err = NoError
IdleProbe == probe = <<>>
OrchUnchanged ==
    UNCHANGED <<pc, jobs, bsize, israndom, nextjob, placement, tblocks,
                jblocks, nalloc, output, err>>

\* __init__ of the three policies: an all-free grid; SpaceFillingCurve also
\* builds its HilbertCurve, which fails for P = 0.
PolicyInit ==
    /\ dims \in PolicyDims
    /\ policy \in Policies
    /\ built = (policy = "SpaceFillingCurve" => sfc_constructible(dims))
    /\ grid = EmptyGrid(dims)
    /\ call = NoCall
    /\ IdleOrch
    /\ IdleProbe

\* The torus indices that the calls up to and including c returned.
Returned(c) ==
    IF ~c.made THEN {}
    ELSE IF c.res.ok
         THEN c.taken \cup {c.res.mapping[i] : i \in DOMAIN c.res.mapping}
         ELSE c.taken

\* The record of an allocate call on the instance: its argument, self.grid
\* when it started, what it returned, and the torus indices that the
\* earlier calls on the instance returned.
Called(shape, before, res) ==
    [made |-> TRUE, shape |-> shape, before |-> before, res |-> res,
     taken |-> Returned(call)]

AllocateFirstFit ==
    /\ built /\ policy = "FirstFit"
    /\ \E shape \in PolicyShapes :
          LET o == FirstFit_allocate(grid, dims, shape)
          IN /\ grid' = o.grid
             /\ call' = Called(shape, grid, o.res)
    /\ UNCHANGED <<dims, policy, built, probe>>
    /\ OrchUnchanged

AllocateSpaceFillingCurve ==
    /\ built /\ policy = "SpaceFillingCurve"
    /\ \E shape \in PolicyShapes :
          LET o == SpaceFillingCurve_allocate(grid, dims, shape)
          IN /\ grid' = o.grid
             /\ call' = Called(shape, grid, o.res)
    /\ UNCHANGED <<dims, policy, built, probe>>
    /\ OrchUnchanged

AllocateL1Clustering ==
    /\ built /\ policy = "L1Clustering" /\ dims \in PolicyDims
    /\ \E shape \in PolicyShapes :
          \E o \in L1Clustering_allocate(grid, dims, shape) :
             /\ grid' = o.grid
             /\ call' = Called(shape, grid, o.res)
    /\ UNCHANGED <<dims, policy, built, probe>>
    /\ OrchUnchanged

PolicyNext ==
    \/ AllocateFirstFit
    \/ AllocateSpaceFillingCurve
    \/ AllocateL1Clustering

SpecPolicy == PolicyInit /\ [][PolicyNext]_vars

(***************************************************************************)
(* A policy instance on an empty torus asked, as its first call, for a job *)
(* whose shape is the torus itself.                                        *)
(***************************************************************************)
MaxWholeCells == 12

WholeDims ==
    {d \in (1..MaxDim) \X (1..MaxDim) \X (1..MaxDim) :
        Prod3(d) <= MaxWholeCells}

WholeInit ==
    /\ dims \in WholeDims
    /\ policy \in Policies
    /\ built = (policy = "SpaceFillingCurve" => sfc_constructible(dims))
    /\ grid = EmptyGrid(dims)
    /\ call = NoCall
    /\ IdleOrch
    /\ IdleProbe

WholeFirstFit ==
    /\ built /\ policy = "FirstFit" /\ ~call.made
    /\ LET o == FirstFit_allocate(grid, dims, dims)
       IN /\ grid' = o.grid
          /\ call' = Called(dims, grid, o.res)
    /\ UNCHANGED <<dims, policy, built, probe>>
    /\ OrchUnchanged

WholeSpaceFillingCurve ==
    /\ built /\ policy = "SpaceFillingCurve" /\ ~call.made
    /\ LET o == SpaceFillingCurve_allocate(grid, dims, dims)
       IN /\ grid' = o.grid
          /\ call' = Called(dims, grid, o.res)
    /\ UNCHANGED <<dims, policy, built, probe>>
    /\ OrchUnchanged

WholeL1Clustering ==
    /\ built /\ policy = "L1Clustering" /\ ~call.made
    /\ \E o \in L1Clustering_allocate(grid, dims, dims) :
          /\ grid' = o.grid
          /\ call' = Called(dims, grid, o.res)
    /\ UNCHANGED <<dims, policy, built, probe>>
    /\ OrchUnchanged

WholeNext ==
    \/ WholeFirstFit
    \/ WholeSpaceFillingCurve
    \/ WholeL1Clustering

SpecWhole == WholeInit /\ [][WholeNext]_vars

(***************************************************************************)
(* Two allocate calls on one FirstFit or SpaceFillingCurve instance whose  *)
(* steps may interleave: each call first reads self.grid and decides which *)
(* cells to take (find_placement; _fetch_availability and the first N      *)
(* indices), and afterwards marks these cells and builds its mapping.      *)
(* probe[t] is the frame of call t.                                        *)
(***************************************************************************)
Callers == {1, 2}

Frame(shape) ==
    [pc |-> "idle", shape |-> shape, seen |-> 0, found |-> <<>>,
     res |-> NoneResult]

InterInit ==
    /\ dims \in PolicyDims
    /\ policy \in {"FirstFit", "SpaceFillingCurve"}
    /\ built = (policy = "SpaceFillingCurve" => sfc_constructible(dims))
    /\ grid = EmptyGrid(dims)
    /\ call = NoCall
    /\ IdleOrch
    /\ probe \in {<<Frame(s1), Frame(s2)>> : s1, s2 \in PolicyShapes}

\* Mutant: the search reads a copy of the grid made when the instance was
\* built.
occupancy_read_initial(t) == EmptyGrid(dims)

\* self.grid as the search of call t reads it.
occupancy_read(t) == grid

\* The calls that have marked their cells.
Marked == {u \in Callers : probe[u].pc = "done" /\ probe[u].res.ok}

\* What the search of a call decides on occupancy g: <<>> for "return None",
\* else the origin (FirstFit) or the coordinates to take in order
\* (SpaceFillingCurve, lines 136-142).
Decide(g, shape) ==
    IF policy = "FirstFit"
    THEN find_placement(g, dims, shape)
    ELSE LET N == Prod3(shape)
             available_indices == fetch_availability(g, dims)
         IN IF Len(available_indices) < N THEN <<>>
            ELSE Table([i \in 1..N |->
                     points_from_distances(available_indices[i],
                                           sfc_order(dims))])

\* The first half of allocate for call t: the read of self.grid.
Search(t) ==
    /\ built /\ probe[t].pc = "idle"
    /\ LET found == Decide(occupancy_read(t), probe[t].shape)
       IN probe' = [probe EXCEPT ![t] =
                      [@ EXCEPT !.pc = IF found = <<>> THEN "done" ELSE "found",
                                !.seen = Cardinality(Marked),
                                !.found = found]]
    /\ UNCHANGED <<dims, policy, built, grid, call>>
    /\ OrchUnchanged

\* The second half of allocate for call t: the loop that marks the cells
\* and fills the mapping.
Mark(t) ==
    /\ built /\ probe[t].pc = "found"
    /\ LET f == IF policy = "FirstFit"
                THEN FFFill(grid, <<>>, dims, probe[t].found,
                            probe[t].shape, 0)
                ELSE SFCFill(grid, <<>>, dims, probe[t].found,
                             Prod3(probe[t].shape), 0)
       IN /\ grid' = f.grid
          /\ probe' = [probe EXCEPT ![t] =
                         [@ EXCEPT !.pc = "done",
                                   !.res = SomeResult(f.mapping)]]
    /\ UNCHANGED <<dims, policy, built, call>>
    /\ OrchUnchanged

SearchStep == \E t \in Callers : Search(t)
MarkStep == \E t \in Callers : Mark(t)

InterNext ==
    \/ SearchStep
    \/ MarkStep

SpecInter == InterInit /\ [][InterNext]_vars

(***************************************************************************)
(* An L1Clustering instance, also on a torus of at least 200 cells, where  *)
(* "step = max(1, len(idle_indices) // 100)" is 2 while 200 cells are idle.*)
(***************************************************************************)
MaxWideCalls == 11   \* single-cell calls before the last call on that torus

WideDims == {<<5, 6, 7>>}

\* The shapes of the calls on the torus of WideDims with n idle cells: one
\* cell (while fewer than MaxWideCalls cells are taken), two cells, all idle
\* cells, one more than that.
WideShapes(n) ==
    (IF Prod3(dims) - n < MaxWideCalls THEN {<<1, 1, 1>>} ELSE {})
        \cup {<<2, 1, 1>>, <<1, n, 1>>, <<1, 1, n + 1>>}

L1Init ==
    /\ dims \in PolicyDims \cup WideDims
    /\ policy = "L1Clustering"
    /\ built = TRUE
    /\ grid = EmptyGrid(dims)
    /\ call = NoCall
    /\ IdleOrch
    /\ IdleProbe

\* L1Clustering.allocate on the torus of WideDims: single-cell calls, then
\* one call of another shape.
AllocateL1Sampled ==
    /\ built /\ policy = "L1Clustering" /\ dims \in WideDims
    /\ call.made => call.shape = <<1, 1, 1>>
    /\ \E shape \in WideShapes(Len(FreeFlat(grid, dims))) :
          \E o \in L1Clustering_allocate(grid, dims, shape) :
             /\ grid' = o.grid
             /\ call' = Called(shape, grid, o.res)
    /\ UNCHANGED <<dims, policy, built, probe>>
    /\ OrchUnchanged

L1Next ==
    \/ AllocateL1Clustering
    \/ AllocateL1Sampled

SpecL1 == L1Init /\ [][L1Next]_vars

(***************************************************************************)
(* The orchestrator: __main__ of place.py.                                 *)
(***************************************************************************)
MaxW == 4          \* torus dims of a run: W in 1..MaxW, L in 1..MaxL, ...
MaxL == 2
MaxH == 2
MaxRunCells == 16  \* ... with at most MaxRunCells nodes
MaxJobD == 3       \* job shapes of a run: D in 1..MaxJobD, T, P in 1..MaxJobTP
MaxJobTP == 2
MaxJobVolume == 12 \* ... with at most MaxJobVolume nodes
MaxJobs == 2       \* lines of the jobspec
MaxBlock == 2      \* --block_size in 1..MaxBlock
MaxRandomBlocks == 4   \* --random is explored on tori of at most so many blocks

\* Job names of the jobspec, in sorted() order.
JobNames == <<"A", "B">>
NameRank(name) == CHOOSE i \in 1..Len(JobNames) : JobNames[i] = name

RunDims ==
    {d \in (1..MaxW) \X (1..MaxL) \X (1..MaxH) : Prod3(d) <= MaxRunCells}
RunShapes ==
    {sh \in (1..MaxJobD) \X (1..MaxJobTP) \X (1..MaxJobTP) :
        Prod3(sh) <= MaxJobVolume}

\* What parse_jobspec can return: names unique (dict keys), file order kept.
JobLists ==
    UNION {{js \in [1..n -> [name : {JobNames[i] : i \in 1..Len(JobNames)},
                             shape : RunShapes]] :
               \A i, j \in 1..n : i # j => js[i].name # js[j].name}
           : n \in 0..Min2(MaxJobs, Len(JobNames))}

RECURSIVE total_job_size(_, _)
\* sum(prod(dims) for dims in jobs.values()), over the first n jobs
total_job_size(js, n) ==
    IF n = 0 THEN 0 ELSE Prod3(js[n].shape) + total_job_size(js, n - 1)

\* f"{name}-{j_idx}"
Key(name, j_idx) == name \o "-" \o ToString(j_idx)

\* The values of --policy explored: the one __main__ compares with, a name
\* for the block path, and a name that stands for nothing.
PolicyArgs == {"firstfit", "block", "unknown"}

RunInit ==
    /\ dims \in RunDims
    /\ jobs \in JobLists
    /\ policy \in PolicyArgs
    /\ bsize \in IF policy = "firstfit" THEN {2} ELSE 1..MaxBlock
    /\ israndom \in IF policy = "block" THEN BOOLEAN ELSE {FALSE}
    /\ israndom => bsize >= 1 /\ NumStarts(dims[1], bsize)
                     * NumStarts(dims[2], bsize)
                     * NumStarts(dims[3], bsize) <= MaxRandomBlocks
    /\ pc = "start"
    /\ grid = <<>> /\ built = FALSE /\ call = NoCall
    /\ nextjob = 0 /\ placement = <<>> /\ tblocks = <<>> /\ jblocks = <<>>
    /\ nalloc = 0 /\ output = NotWritten /\ err = NoError
    /\ IdleProbe

InputsUnchanged == UNCHANGED <<dims, jobs, policy, bsize, israndom, probe>>

\* Mutant: the capacity check compares with ">=".
capacity_exceeded_ge(total, size) == total >= size

\* "if total_job_size > torus_size"
capacity_exceeded(total, size) == total > size

\* place.py lines 161-167: the capacity check.
CapacityCheck ==
    /\ pc = "start"
    /\ IF capacity_exceeded(total_job_size(jobs, Len(jobs)), Prod3(dims))
       THEN /\ pc' = "failed"
            /\ err' = [kind |-> "capacity"]
       ELSE /\ pc' = "checked"
            /\ err' = err
    /\ UNCHANGED <<grid, built, call, nextjob, placement, tblocks, jblocks,
                   nalloc, output>>
    /\ InputsUnchanged

\* Mutant: the loop over the jobs starts at the second job.
EnterFirstFit_second ==
    /\ pc = "checked" /\ policy = "firstfit"
    /\ pc' = "firstfit"
    /\ grid' = EmptyGrid(dims)
    /\ built' = TRUE
    /\ placement' = <<>>
    /\ nextjob' = 2
    /\ UNCHANGED <<call, tblocks, jblocks, nalloc, output, err>>
    /\ InputsUnchanged

\* firstfit_placement, lines 103-105: the empty table and the FirstFit object.
EnterFirstFit ==
    /\ pc = "checked" /\ policy = "firstfit"
    /\ pc' = "firstfit"
    /\ grid' = EmptyGrid(dims)
    /\ built' = TRUE
    /\ placement' = <<>>
    /\ nextjob' = 1
    /\ UNCHANGED <<call, tblocks, jblocks, nalloc, output, err>>
    /\ InputsUnchanged

RECURSIVE MergeMapping(_, _, _, _)
\* "for j_idx in sorted(mapping.keys()): placement[f'{name}-{j_idx}'] = ..."
MergeMapping(p, name, mapping, keys) ==
    IF keys = <<>> THEN p
    ELSE MergeMapping(DictSet(p, Key(name, Head(keys)), mapping[Head(keys)]),
                      name, mapping, Tail(keys))

\* Mutant: the result of allocate is not tested.
not_mapping_unchecked(res) == FALSE

\* "if not mapping": None and the empty dict are both falsy.
not_mapping(res) == ~res.ok \/ DOMAIN res.mapping = {}

\* One iteration of the loop of firstfit_placement (lines 107-112).
FirstFitJob ==
    /\ pc = "firstfit" /\ nextjob <= Len(jobs)
    /\ LET job == jobs[nextjob]
           o == FirstFit_allocate(grid, dims, job.shape)
       IN /\ grid' = o.grid
          /\ call' = Called(job.shape, grid, o.res)
          /\ nalloc' = nalloc + 1
          /\ IF not_mapping(o.res)
             THEN /\ pc' = "failed"
                  /\ err' = [kind |-> "placement", name |-> job.name,
                             shape |-> job.shape]
                  /\ UNCHANGED <<placement, nextjob>>
             ELSE /\ placement' =
                        MergeMapping(placement, job.name, o.res.mapping,
                                     sorted(SetToSeq(DOMAIN o.res.mapping)))
                  /\ nextjob' = nextjob + 1
                  /\ UNCHANGED <<pc, err>>
    /\ UNCHANGED <<built, tblocks, jblocks, output>>
    /\ InputsUnchanged

\* "return placement" of firstfit_placement.
FirstFitReturn ==
    /\ pc = "firstfit" /\ nextjob > Len(jobs)
    /\ pc' = "dump"
    /\ UNCHANGED <<grid, built, call, nextjob, placement, tblocks, jblocks,
                   nalloc, output, err>>
    /\ InputsUnchanged

\* The m-th (x_start, y_start, z_start) of itertools.product(range(0, H, B),
\* range(0, L, B), range(0, W, B)): the last range varies fastest.
BlockStart(m, d, B) ==
    LET nxs == NumStarts(d[1], B)
        nys == NumStarts(d[2], B)
    IN <<(m % nxs) * B, ((m \div nxs) % nys) * B, (m \div (nxs * nys)) * B>>

\* The n-th (x, y, z) of the inner product over one BxBxB block.
BlockCoord(m, n, d, B) ==
    LET st == BlockStart(m, d, B)
    IN <<st[1] + (n % B), st[2] + ((n \div B) % B), st[3] + (n \div (B * B))>>

NumBlocks(d, B) == NumStarts(d[1], B) * NumStarts(d[2], B) * NumStarts(d[3], B)

\* Mutant: the plane stride of the torus blocks taken as L*L.
torus_node_index_bad(x, y, z, d) == (z * (d[2] * d[2])) + (y * d[1]) + x

\* "z * (L * W) + y * W + x" of init_torus_blocks (place.py line 30)
torus_node_index(x, y, z, d) == (z * (d[2] * d[1])) + (y * d[1]) + x

\* "p * (T * D) + t * D + d" of init_job_blocks (place.py line 55)
job_node_index(dd, t, pp, shape) == (pp * (shape[2] * shape[1])) + (t * shape[1]) + dd

\* Python's a % b for b # 0: the result takes the sign of b.
py_mod(a, b) == IF b > 0 THEN a % b ELSE 0 - ((0 - a) % (0 - b))

\* "if dim % B != 0: raise ValueError" over the torus dims (B # 0)
torus_divisible(d, B) == \A i \in 1..3 : py_mod(d[i], B) = 0

\* init_torus_blocks, past its divisibility check: the list of blocks.
init_torus_blocks(d, B) ==
    [m1 \in 1..NumBlocks(d, B) |->
        [n1 \in 1..(B * B * B) |->
            LET c == BlockCoord(m1 - 1, n1 - 1, d, B)
            IN torus_node_index(c[1], c[2], c[3], d)]]

\* The blocks init_job_blocks builds for one job (no divisibility check).
job_block_indices(shape, B) ==
    [m1 \in 1..NumBlocks(shape, B) |->
        [n1 \in 1..(B * B * B) |->
            LET c == BlockCoord(m1 - 1, n1 - 1, shape, B)
            IN job_node_index(c[1], c[2], c[3], shape)]]

\* The jobs in the order of dict(sorted(job_blocks.items())).
RECURSIVE JobsByName(_, _)
JobsByName(js, rank) ==
    IF rank > Len(JobNames) THEN <<>>
    ELSE LET here == {i \in 1..Len(js) : js[i].name = JobNames[rank]}
         IN (IF here = {} THEN <<>> ELSE <<js[CHOOSE i \in here : TRUE]>>)
            \o JobsByName(js, rank + 1)

RECURSIVE AllJobBlocks(_, _)
\* The (job name, job block) pairs in the order block_placement visits them.
AllJobBlocks(sortedjobs, B) ==
    IF sortedjobs = <<>> THEN <<>>
    ELSE LET job == Head(sortedjobs)
             bl == job_block_indices(job.shape, B)
         IN [i \in 1..Len(bl) |-> [name |-> job.name, block |-> bl[i]]]
            \o AllJobBlocks(Tail(sortedjobs), B)

\* The first job whose smallest dimension is below the block size (0: none).
RECURSIVE FirstSmallJob(_, _, _)
FirstSmallJob(js, B, i) ==
    IF i > Len(js) THEN 0
    ELSE IF B > Min2(js[i].shape[1], Min2(js[i].shape[2], js[i].shape[3]))
         THEN i
         ELSE FirstSmallJob(js, B, i + 1)

\* place.py lines 172-186 up to the call of block_placement: the block-size
\* check against the jobs, init_torus_blocks, init_job_blocks.
EnterBlock ==
    /\ pc = "checked" /\ policy # "firstfit"
    /\ LET small == FirstSmallJob(jobs, bsize, 1)
       IN IF small # 0
          THEN /\ pc' = "failed"
               /\ err' = [kind |-> "block_exceeds_job_dim",
                          name |-> jobs[small].name]
               /\ UNCHANGED <<tblocks, jblocks, placement>>
          ELSE IF bsize = 0
          THEN \* "dim % B" of init_torus_blocks raises ZeroDivisionError
               /\ pc' = "failed"
               /\ err' = [kind |-> "zero_division"]
               /\ UNCHANGED <<tblocks, jblocks, placement>>
          ELSE IF ~torus_divisible(dims, bsize)
          THEN /\ pc' = "failed"
               /\ err' = [kind |-> "block_not_dividing_torus"]
               /\ UNCHANGED <<tblocks, jblocks, placement>>
          ELSE /\ pc' = "block"
               /\ tblocks' = init_torus_blocks(dims, bsize)
               /\ jblocks' = AllJobBlocks(JobsByName(jobs, 1), bsize)
               /\ placement' = <<>>
               /\ err' = err
    /\ UNCHANGED <<grid, built, call, nextjob, nalloc, output>>
    /\ InputsUnchanged

RECURSIVE ZipAssign(_, _, _, _, _)
\* "for j_node, t_node in zip(j_block, t_block): placement[...] = t_node"
ZipAssign(p, name, j_block, t_block, i) ==
    IF i > Len(j_block) \/ i > Len(t_block) THEN p
    ELSE ZipAssign(DictSet(p, Key(name, j_block[i]), t_block[i]),
                   name, j_block, t_block, i + 1)

\* Mutant: the block is read but stays in the list.
Pop_keep(s, ptr) == s

\* list.pop(ptr): the list without its ptr-th entry (1-based here).
Pop(s, ptr) == SubSeq(s, 1, ptr - 1) \o SubSeq(s, ptr + 1, Len(s))

\* One iteration of the inner loop of block_placement (lines 89-94).
BlockAssign ==
    /\ pc = "block" /\ jblocks # <<>>
    /\ IF tblocks = <<>>
       THEN \* randrange(0) / pop from an empty list raises
            /\ pc' = "failed"
            /\ err' = [kind |-> "no_torus_block_left",
                       name |-> Head(jblocks).name]
            /\ UNCHANGED <<tblocks, jblocks, placement, nalloc>>
       ELSE \E block_ptr \in (IF israndom THEN 1..Len(tblocks) ELSE {1}) :
               /\ placement' = ZipAssign(placement, Head(jblocks).name,
                                         Head(jblocks).block,
                                         tblocks[block_ptr], 1)
               /\ tblocks' = Pop(tblocks, block_ptr)
               /\ jblocks' = Tail(jblocks)
               /\ nalloc' = nalloc + 1
               /\ UNCHANGED <<pc, err>>
    /\ UNCHANGED <<grid, built, call, nextjob, output>>
    /\ InputsUnchanged

\* "return placement" of block_placement.
BlockReturn ==
    /\ pc = "block" /\ jblocks = <<>>
    /\ pc' = "dump"
    /\ UNCHANGED <<grid, built, call, nextjob, placement, tblocks, jblocks,
                   nalloc, output, err>>
    /\ InputsUnchanged

\* dump(placement, args.output): the whole table is written.
Dump ==
    /\ pc = "dump"
    /\ output' = Written(placement)
    /\ pc' = "done"
    /\ UNCHANGED <<grid, built, call, nextjob, placement, tblocks, jblocks,
                   nalloc, err>>
    /\ InputsUnchanged

RunNext ==
    \/ CapacityCheck
    \/ EnterFirstFit
    \/ FirstFitJob
    \/ FirstFitReturn
    \/ EnterBlock
    \/ BlockAssign
    \/ BlockReturn
    \/ Dump

SpecRun == RunInit /\ [][RunNext]_vars

(***************************************************************************)
(* The same run started on command lines and jobspecs whose integers are   *)
(* not all positive: argparse and parse_jobspec convert with int() and     *)
(* accept zero and negative values.                                        *)
(***************************************************************************)
MaxConfigShape == 1

\* --torus_dims with zero allowed on every axis
ConfigDims == (0..MaxL) \X (0..MaxL) \X (0..MaxH)
\* jobspec shapes with zero allowed on every axis
ConfigShapes ==
    (0..MaxConfigShape) \X (0..MaxConfigShape) \X (0..MaxConfigShape)

\* Jobspecs of at most two lines: one job of any shape, or a one-node job
\* "A" followed by a job "B" of any shape.
ConfigJobLists ==
    {<<>>}
    \cup {<<[name |-> JobNames[1], shape |-> sh]>> : sh \in ConfigShapes}
    \cup {<<[name |-> JobNames[1], shape |-> <<1, 1, 1>>],
            [name |-> JobNames[2], shape |-> sh]>> : sh \in ConfigShapes}

\* --block_size: int(), default 2; the first-fit path never reads it.
ConfigBlockSizes(p) == IF p = "firstfit" THEN {0, MaxBlock} ELSE (0 - 1)..MaxBlock

ConfigInit ==
    /\ dims \in ConfigDims
    /\ jobs \in ConfigJobLists
    /\ policy \in {"firstfit", "block"}
    /\ bsize \in ConfigBlockSizes(policy)
    /\ israndom = FALSE
    /\ pc = "start"
    /\ grid = <<>> /\ built = FALSE /\ call = NoCall
    /\ nextjob = 0 /\ placement = <<>> /\ tblocks = <<>> /\ jblocks = <<>>
    /\ nalloc = 0 /\ output = NotWritten /\ err = NoError
    /\ IdleProbe

SpecConfig == ConfigInit /\ [][RunNext]_vars

(***************************************************************************)
(* The First-Fit run executed twice on the same command line and jobspec:  *)
(* each execution of place.py is a new process, starting at the top of     *)
(* __main__ with nothing kept from the one before.                         *)
(***************************************************************************)
TwiceInit ==
    /\ dims \in RunDims
    /\ jobs \in JobLists
    /\ policy = "firstfit"
    /\ bsize = 2
    /\ israndom = FALSE
    /\ pc = "start"
    /\ grid = <<>> /\ built = FALSE /\ call = NoCall
    /\ nextjob = 0 /\ placement = <<>> /\ tblocks = <<>> /\ jblocks = <<>>
    /\ nalloc = 0 /\ output = NotWritten /\ err = NoError
    /\ IdleProbe

\* The first execution has ended (normally or with an exception); what it
\* produced is put aside and place.py is started again with the same inputs.
Rerun ==
    /\ pc \in {"done", "failed"} /\ DOMAIN probe = {}
    /\ probe' = [grid |-> grid, placement |-> placement, output |-> output,
                 err |-> err, nextjob |-> nextjob, nalloc |-> nalloc,
                 ended |-> pc]
    /\ pc' = "start"
    /\ grid' = <<>> /\ built' = FALSE /\ call' = NoCall
    /\ nextjob' = 0 /\ placement' = <<>>
    /\ nalloc' = 0 /\ output' = NotWritten /\ err' = NoError
    /\ UNCHANGED <<dims, jobs, policy, bsize, israndom, tblocks, jblocks>>

TwiceNext ==
    \/ CapacityCheck
    \/ EnterFirstFit
    \/ FirstFitJob
    \/ FirstFitReturn
    \/ Dump
    \/ Rerun

SpecTwice == TwiceInit /\ [][TwiceNext]_vars

(***************************************************************************)
(* The coordinate mapper probed on its own: encode a coordinate, decode    *)
(* the index as build_torus.py decodes node ids, split torus and job into  *)
(* blocks.                                                                 *)
(***************************************************************************)
RECURSIVE ProdPrefix(_, _)
\* math.prod(dims[0:i]) (dims 0-based in the source, 1-based here)
ProdPrefix(d, i) == IF i <= 0 THEN 1 ELSE d[i] * ProdPrefix(d, i - 1)

RECURSIVE DecodeFrom(_, _, _, _)
\* generate_torus_links, lines 27-31: "for i in range(num_dims - 1, -1, -1)"
\* from axis i (0-based) on, with the coordinates found so far.
DecodeFrom(temp_id, d, i, found) ==
    IF i < 0 THEN found
    ELSE LET base == ProdPrefix(d, i)
         IN DecodeFrom(temp_id % base, d, i - 1,
                       <<temp_id \div base>> \o found)

\* Mutant: the bases of the decoding taken from dims[1:], not dims[0:i].
decode_node_id_shifted(node_id, d) ==
    <<node_id % d[2], (node_id \div d[2]) % d[3], node_id \div (d[2] * d[3])>>

\* The coords of node_id in generate_torus_links.
decode_node_id(node_id, d) == DecodeFrom(node_id, d, 2, <<>>)

IdlePolicy ==
    /\ dims = <<1, 1, 1>> /\ policy = "none" /\ grid = <<>> /\ built = FALSE
    /\ call = NoCall

ProbeInit ==
    /\ probe \in [stage : {"dims"}, d : PolicyDims]
    /\ IdlePolicy
    /\ IdleOrch

ProbeFrame ==
    /\ UNCHANGED <<dims, policy, grid, built, call>>
    /\ OrchUnchanged

\* coord_to_linear_index on a coordinate of the grid.
ProbeEncode ==
    /\ probe.stage = "dims"
    /\ \E c \in Cells(probe.d) :
          probe' = [stage |-> "encoded", d |-> probe.d, c |-> c,
                    idx |-> coord_to_linear_index(c[1], c[2], c[3], probe.d)]
    /\ ProbeFrame

\* The decoding of build_torus.py applied to the index.
ProbeDecode ==
    /\ probe.stage = "encoded"
    /\ probe' = [stage |-> "decoded", d |-> probe.d, c |-> probe.c,
                 idx |-> probe.idx, dec |-> decode_node_id(probe.idx, probe.d)]
    /\ ProbeFrame

\* init_torus_blocks on the dims and init_job_blocks on a job of that shape,
\* for a block size that divides them.
ProbeBlocks ==
    /\ probe.stage = "dims"
    /\ \E B \in 1..MaxBlock :
          /\ torus_divisible(probe.d, B)
          /\ probe' = [stage |-> "blocks", d |-> probe.d, B |-> B,
                       torus_blocks |-> init_torus_blocks(probe.d, B),
                       job_blocks |-> job_block_indices(probe.d, B)]
    /\ ProbeFrame

\* L1Clustering._get_torus_distance between two cells of the torus, in both
\* directions and from a cell to itself.
ProbeDistance ==
    /\ probe.stage = "dims"
    /\ \E a \in Cells(probe.d), b \in Cells(probe.d) :
          probe' = [stage |-> "distance", d |-> probe.d, a |-> a, b |-> b,
                    per |-> dist_per_dim(a, b, probe.d),
                    ab |-> get_torus_distance(a, b, probe.d),
                    ba |-> get_torus_distance(b, a, probe.d),
                    aa |-> get_torus_distance(a, a, probe.d)]
    /\ ProbeFrame

ProbeNext ==
    \/ ProbeEncode
    \/ ProbeDecode
    \/ ProbeBlocks
    \/ ProbeDistance

SpecCoord == ProbeInit /\ [][ProbeNext]_vars

(***************************************************************************)
(* The occupancy query of FirstFit probed on its own: any grid, any box    *)
(* inside it.                                                              *)
(***************************************************************************)
\* self.grid in any state of occupancy.
Grids(d) == [Cells(d) -> {0, 1}]

\* The extents (A,B,C), all at least 1, whose box at origin o lies inside d.
ExtentsInside(o, d) ==
    (1..(d[1] - o[1])) \X (1..(d[2] - o[2])) \X (1..(d[3] - o[3]))

GridInit ==
    /\ \E d \in PolicyDims :
          probe \in [stage : {"grid"}, d : {d}, g : Grids(d)]
    /\ IdlePolicy
    /\ IdleOrch

\* _get_integral_volume, then _is_free for one origin and extent.
GridIsFree ==
    /\ probe.stage = "grid"
    /\ \E o \in Cells(probe.d) :
          \E size \in ExtentsInside(o, probe.d) :
             probe' = [stage |-> "queried", d |-> probe.d, g |-> probe.g,
                       start |-> o, size |-> size,
                       free |-> is_free(get_integral_volume(probe.g), o, size)]
    /\ ProbeFrame

GridNext == GridIsFree

SpecGrid == GridInit /\ [][GridNext]_vars

(***************************************************************************)
(* merge_trace.py: build_job_xpu_map on a placement table.  A Python str   *)
(* is the sequence of its characters here, so that startswith and split    *)
(* work on it as they do in the code.                                      *)
(***************************************************************************)
MaxMergeVolume == 2   \* nodes of a job in the table: 1..MaxMergeVolume
MaxMergeBase == 1     \* the first torus index used: 0..MaxMergeBase

\* The job names explored, in sorted() order: "J", "J-1", "K".
MergeNames == <<(<<"J">>), (<<"J", "-", "1">>), (<<"K">>)>>

RECURSIVE Decimal(_)
\* str(n) for n >= 0, as characters
Decimal(n) ==
    IF n < 10 THEN <<ToString(n)>>
    ELSE Decimal(n \div 10) \o <<ToString(n % 10)>>

\* f"{name}-{j_idx}" (place.py lines 94 and 112), as characters
key_chars(name, j_idx) == name \o <<"-">> \o Decimal(j_idx)

\* str.startswith
startswith(str, prefix) ==
    /\ Len(str) >= Len(prefix)
    /\ SubSeq(str, 1, Len(prefix)) = prefix

\* The position of the first "-" of str at or after position i
\* (Len(str) + 1 when there is none).
RECURSIVE NextDash(_, _)
NextDash(str, i) ==
    IF i > Len(str) THEN Len(str) + 1
    ELSE IF str[i] = "-" THEN i
    ELSE NextDash(str, i + 1)

\* key.split("-")[1] for a key that starts with prefix (so it has a "-"):
\* the characters between the first "-" and the next one.
local_field(key, prefix) ==
    LET first == NextDash(key, 1)
    IN SubSeq(key, first + 1, NextDash(key, first + 1) - 1)

\* int(chars): the number whose decimal form the characters are; not ok
\* stands for the ValueError int() raises on anything else met here.
py_int(chars) ==
    LET fits == {n \in 0..99 : Decimal(n) = chars}
    IN IF fits = {} THEN [ok |-> FALSE, value |-> 0]
       ELSE [ok |-> TRUE, value |-> CHOOSE n \in fits : TRUE]

RECURSIVE xpu_map_from(_, _, _, _)
\* The loop "for key, global_xpu in placement_map.items()" for one job, from
\* the i-th item on; xpu_map so far is m.  "error" is the ValueError.
xpu_map_from(job, placement_map, i, m) ==
    IF i > Len(placement_map) THEN [ok |-> TRUE, xpu_map |-> m]
    ELSE LET key == placement_map[i].key
             global_xpu == placement_map[i].value
             prefix == job \o <<"-">>
         IN IF ~startswith(key, prefix)
            THEN xpu_map_from(job, placement_map, i + 1, m)
            ELSE LET local_xpu == py_int(local_field(key, prefix))
                 IN IF ~local_xpu.ok
                    THEN [ok |-> FALSE, xpu_map |-> m]
                    ELSE xpu_map_from(job, placement_map, i + 1,
                                      DictSet(m, local_xpu.value, global_xpu))

RECURSIVE placement_items(_, _, _)
\* The items of the table place.py writes for the jobs js (names in sorted
\* order, each with its number of nodes), in the order of the file: job by
\* job, local index ascending; torus indices from base on.
placement_items(js, n, base) ==
    IF n = 0 THEN <<>>
    ELSE LET before == placement_items(js, n - 1, base)
         IN before \o [i \in 1..js[n].volume |->
                          [key |-> key_chars(js[n].name, i - 1),
                           value |-> base + Len(before) + i - 1]]

\* The lists of jobs: distinct names in sorted order, each with a volume.
MergeJobLists ==
    UNION {{js \in [1..n -> [name : {MergeNames[i] : i \in 1..Len(MergeNames)},
                              volume : 1..MaxMergeVolume]] :
               \A i, j \in 1..n :
                   i < j => \E a, b \in 1..Len(MergeNames) :
                               /\ a < b
                               /\ js[i].name = MergeNames[a]
                               /\ js[j].name = MergeNames[b]}
           : n \in 1..Len(MergeNames)}

MergeInit ==
    /\ \E js \in MergeJobLists : \E base \in 0..MaxMergeBase :
          probe = [stage |-> "merging", jobs |-> js,
                   placement_map |-> placement_items(js, Len(js), base),
                   next |-> 1, job_xpu_map |-> <<>>]
    /\ IdlePolicy
    /\ IdleOrch

\* One iteration of "for job in jobs" of build_job_xpu_map (lines 48-54).
MapJob ==
    /\ probe.stage = "merging" /\ probe.next <= Len(probe.jobs)
    /\ LET job == probe.jobs[probe.next].name
           r == xpu_map_from(job, probe.placement_map, 1, <<>>)
       IN IF r.ok
          THEN probe' = [probe EXCEPT
                           !.job_xpu_map = DictSet(@, job, r.xpu_map),
                           !.next = @ + 1]
          ELSE probe' = [probe EXCEPT !.stage = "ValueError"]
    /\ ProbeFrame

\* "return job_xpu_map"
MapReturn ==
    /\ probe.stage = "merging" /\ probe.next > Len(probe.jobs)
    /\ probe' = [probe EXCEPT !.stage = "mapped"]
    /\ ProbeFrame

MergeNext ==
    \/ MapJob
    \/ MapReturn

SpecMerge == MergeInit /\ [][MergeNext]_vars

(***************************************************************************)
(* Properties.                                                             *)
(***************************************************************************)
TorusIndices(d) == 0..(Prod3(d) - 1)
Values(f) == {f[k] : k \in DOMAIN f}
Injective(f) == \A j, k \in DOMAIN f : j # k => f[j] # f[k]

\* The keys '<job>-<i>', i in 0..volume-1, of all jobs of the run.
DeclaredKeys ==
    UNION {{Key(jobs[i].name, j) : j \in 0..(Prod3(jobs[i].shape) - 1)}
           : i \in 1..Len(jobs)}

\* The cells of the box of extent size at origin o.
Box(o, size) ==
    {<<o[1] + a, o[2] + b, o[3] + c>> :
        a \in 0..(size[1] - 1), b \in 0..(size[2] - 1), c \in 0..(size[3] - 1)}

\* The origins whose whole box lies in the grid and is free in g.
ValidOrigins(g, d, size) ==
    {o \in Cells(d) : /\ o[1] + size[1] <= d[1]
                      /\ o[2] + size[2] <= d[2]
                      /\ o[3] + size[3] <= d[3]
                      /\ \A c \in Box(o, size) : g[c] = 0}

\* o is not after v in (z, y, x) lexicographic order.
ZYXLessEq(o, v) ==
    \/ o[3] < v[3]
    \/ o[3] = v[3] /\ o[2] < v[2]
    \/ o[3] = v[3] /\ o[2] = v[2] /\ o[1] <= v[1]

\* The cells that the last call turned from free to occupied.
NewlyOccupied == {c \in DOMAIN grid : call.before[c] = 0 /\ grid[c] = 1}

\* C1: when a run that passed the capacity check completes (either path),
\* the table holds exactly the keys '<job>-<i>', i in 0..volume-1, of every
\* job, every value is a torus index in [0, W*L*H), and no value repeats.
C1_CompleteTable ==
    pc = "done" =>
        /\ DOMAIN output.table = DeclaredKeys
        /\ Values(output.table) \subseteq TorusIndices(dims)
        /\ Injective(output.table)

\* C2: on the First-Fit path (the job set having passed the capacity check)
\* the values of the placement table are pairwise distinct torus indices in
\* [0, W*L*H), after every job merged and in the table written at the end.
C2_FirstFitDisjointInRange ==
    policy = "firstfit" =>
        /\ Values(placement) \subseteq TorusIndices(dims)
        /\ Injective(placement)
        /\ output.written =>
              /\ output.table = placement
              /\ Cardinality(Values(output.table))
                    = total_job_size(jobs, Len(jobs))

C2_Witness ==
    /\ policy = "firstfit" /\ pc = "done" /\ Len(jobs) = 2
    /\ Cardinality(DOMAIN output.table) >= 4

\* C3: in every policy, a cell that is occupied stays occupied over every
\* allocate call, successful or failed.
C3_OccupiedStaysOccupied ==
    [][\A c \in DOMAIN grid : grid[c] = 1 => grid'[c] = 1]_vars

C3_Witness ==
    /\ call.made /\ call.res.ok
    /\ \E c \in DOMAIN grid : call.before[c] = 1 /\ grid[c] = 1
    /\ policy = "L1Clustering"

\* C4: when allocate(shape) returns a mapping, its keys are 0..D*T*P-1, its
\* values are pairwise distinct, each value is the index of a cell that was
\* free before the call and is occupied after it, and exactly D*T*P cells
\* turned from free to occupied.
C4_SuccessfulAllocate ==
    (call.made /\ call.res.ok) =>
        LET m == call.res.mapping
            N == Prod3(call.shape)
        IN /\ DOMAIN m = 0..(N - 1)
           /\ Injective(m)
           /\ \A i \in DOMAIN m :
                 \E c \in NewlyOccupied :
                    m[i] = (c[3] * dims[2] * dims[1]) + (c[2] * dims[1]) + c[1]
           /\ Cardinality(NewlyOccupied) = N

C4_Witness ==
    /\ call.made /\ call.res.ok /\ policy = "SpaceFillingCurve"
    /\ Prod3(call.shape) >= 2
    /\ \E c \in DOMAIN grid : call.before[c] = 1

\* C5: the run ends with a capacity error exactly when the total job volume
\* exceeds W*L*H, and then nothing was allocated, assigned or written.
C5_CapacityFailFast ==
    /\ pc # "start" =>
          (err.kind = "capacity"
             <=> total_job_size(jobs, Len(jobs)) > Prod3(dims))
    /\ err.kind = "capacity" =>
          /\ pc = "failed"
          /\ nalloc = 0 /\ ~call.made /\ ~built
          /\ tblocks = <<>> /\ jblocks = <<>>
          /\ placement = <<>> /\ ~output.written

C5_Witness ==
    /\ err.kind = "capacity"
    /\ total_job_size(jobs, Len(jobs)) = Prod3(dims) + 1
    /\ Len(jobs) = 2

\* C6: on the First-Fit path the first job whose allocate returns None ends
\* the run with a placement failure naming that job and its shape; nothing
\* is written, although the earlier jobs were allocated.
C6_PlacementFailure ==
    /\ (policy = "firstfit" /\ call.made /\ ~call.res.ok) =>
          /\ pc = "failed"
          /\ err = [kind |-> "placement", name |-> jobs[nextjob].name,
                    shape |-> jobs[nextjob].shape]
          /\ call.shape = jobs[nextjob].shape
          /\ nalloc = nextjob
    /\ err.kind = "placement" => (call.made /\ ~call.res.ok)
    /\ pc = "failed" => (~output.written /\ ~ENABLED RunNext)

C6_Witness ==
    /\ err.kind = "placement" /\ nextjob = 2
    /\ \E c \in DOMAIN grid : grid[c] = 1
    /\ placement # <<>>

\* C7: find_placement returns the origin that is smallest in (z, y, x)
\* order among the origins whose whole box is inside the grid and free
\* (None when there is none); a job that fits an empty grid goes to
\* (0,0,0) with local index 0 on torus index 0, and a later job gets no
\* torus index of an earlier one.
C7_FirstOriginInScanOrder ==
    policy = "FirstFit" =>
        /\ \A shape \in PolicyShapes :
              LET o == find_placement(grid, dims, shape)
                  V == ValidOrigins(grid, dims, shape)
              IN IF V = {} THEN o = <<>>
                 ELSE o \in V /\ \A v \in V : ZYXLessEq(o, v)
        /\ (call.made /\ call.res.ok /\ call.before = EmptyGrid(dims)) =>
              /\ find_placement(call.before, dims, call.shape) = <<0, 0, 0>>
              /\ call.res.mapping[0] = 0
        /\ (call.made /\ call.res.ok) =>
              \A c \in DOMAIN grid :
                  call.before[c] = 1 =>
                      (c[3] * dims[2] * dims[1]) + (c[2] * dims[1]) + c[1]
                          \notin Values(call.res.mapping)

C7_Witness ==
    /\ policy = "FirstFit" /\ call.made /\ call.res.ok
    /\ call.before # EmptyGrid(dims)
    /\ find_placement(call.before, dims, call.shape) = <<0, 1, 0>>

\* C8: the linear index of (x,y,z) under (Wd,Ld,Hd) is z*(Ld*Wd)+y*Wd+x,
\* and the indices init_torus_blocks and init_job_blocks produce are those
\* of coord_to_linear_index at the same coordinates.
C8_OneIndexFormula ==
    /\ probe.stage = "encoded" =>
          probe.idx = (probe.c[3] * (probe.d[2] * probe.d[1]))
                        + (probe.c[2] * probe.d[1]) + probe.c[1]
    /\ probe.stage = "blocks" =>
          \A m1 \in 1..NumBlocks(probe.d, probe.B) :
             \A n1 \in 1..(probe.B * probe.B * probe.B) :
                LET c == BlockCoord(m1 - 1, n1 - 1, probe.d, probe.B)
                    idx == coord_to_linear_index(c[1], c[2], c[3], probe.d)
                IN /\ probe.torus_blocks[m1][n1] = idx
                   /\ probe.job_blocks[m1][n1] = idx

C8_Witness ==
    /\ probe.stage = "blocks" /\ probe.B = 2 /\ probe.d = <<2, 2, 2>>
    /\ probe.torus_blocks[1][8] = 7

\* C9: First-Fit maps the job-local index c*(B*A)+b*A+a of every local
\* coordinate of the box to the torus index (z0+c)*(L*W)+(y0+b)*W+(x0+a),
\* and the cells the call occupies are exactly those of the box.
C9_FirstFitMapping ==
    (policy = "FirstFit" /\ call.made /\ call.res.ok) =>
        LET o == find_placement(call.before, dims, call.shape)
            A == call.shape[1]
            B == call.shape[2]
            C == call.shape[3]
        IN /\ DOMAIN call.res.mapping = 0..((A * B * C) - 1)
           /\ \A a \in 0..(A - 1), b \in 0..(B - 1), c \in 0..(C - 1) :
                 call.res.mapping[(c * (B * A)) + (b * A) + a]
                    = ((o[3] + c) * (dims[2] * dims[1]))
                        + ((o[2] + b) * dims[1]) + (o[1] + a)
           /\ NewlyOccupied = Box(o, call.shape)
           /\ \A c \in DOMAIN grid \ Box(o, call.shape) :
                 grid[c] = call.before[c]

C9_Witness ==
    /\ policy = "FirstFit" /\ call.made /\ call.res.ok
    /\ call.shape = <<1, 2, 1>> /\ dims = <<2, 2, 2>>
    /\ find_placement(call.before, dims, call.shape) = <<1, 0, 1>>

\* C10: decoding the linear index of a valid coordinate the way build_torus
\* decodes node ids (z = idx div (W*L), y = (idx mod (W*L)) div W,
\* x = idx mod W) gives the coordinate back, and the linear index is a
\* bijection from the valid coordinates onto [0, W*L*H).
C10_RoundTrip ==
    /\ probe.stage = "decoded" =>
          /\ probe.dec = probe.c
          /\ probe.dec = <<probe.idx % probe.d[1],
                           (probe.idx % (probe.d[1] * probe.d[2]))
                               \div probe.d[1],
                           probe.idx \div (probe.d[1] * probe.d[2])>>
    /\ probe.stage \in {"encoded", "decoded"} =>
          /\ probe.idx \in TorusIndices(probe.d)
          /\ \A c \in Cells(probe.d) :
                coord_to_linear_index(c[1], c[2], c[3], probe.d) = probe.idx
                   => c = probe.c
          /\ \A i \in TorusIndices(probe.d) :
                decode_node_id(i, probe.d) \in Cells(probe.d)

C10_Witness ==
    /\ probe.stage = "decoded" /\ probe.d = <<2, 1, 3>>
    /\ probe.c = <<1, 0, 2>> /\ probe.idx = 5

\* C11: the torus L1 distance between two in-range coordinates is the same
\* in both directions, and the distance of a coordinate to itself is 0.
C11_DistanceSymmetric ==
    probe.stage = "distance" =>
        /\ probe.ab = probe.ba
        /\ probe.aa = 0
        /\ probe.a = probe.b => probe.ab = 0

C11_Witness ==
    /\ probe.stage = "distance" /\ probe.d = <<3, 2, 1>>
    /\ probe.a = <<0, 1, 0>> /\ probe.b = <<2, 0, 0>>
    /\ probe.ab = 2

\* C12: the torus L1 distance is the sum over the three axes of
\* min(|a_i-b_i|, dim_i-|a_i-b_i|); the term of an axis of size 1 is 0, the
\* term of an axis of size 2 is the direct distance |a_i-b_i|, and no term
\* exceeds floor(dim_i/2).
C12_DistancePerAxis ==
    probe.stage = "distance" =>
        LET direct(i) == IF probe.a[i] >= probe.b[i]
                         THEN probe.a[i] - probe.b[i]
                         ELSE probe.b[i] - probe.a[i]
            wrap(i) == probe.d[i] - direct(i)
            term(i) == IF direct(i) <= wrap(i) THEN direct(i) ELSE wrap(i)
        IN /\ probe.ab = term(1) + term(2) + term(3)
           /\ \A i \in 1..3 :
                 /\ probe.per[i] = term(i)
                 /\ probe.d[i] = 1 => probe.per[i] = 0
                 /\ probe.d[i] = 2 => probe.per[i] = direct(i)
                 /\ probe.per[i] <= probe.d[i] \div 2
                 /\ probe.per[i] >= 0

C12_Witness ==
    /\ probe.stage = "distance" /\ probe.d = <<3, 2, 1>>
    /\ probe.a = <<0, 0, 0>> /\ probe.b = <<2, 1, 0>>
    /\ probe.per = <<1, 1, 0>>

\* C13: for every occupancy grid, every origin (x,y,z) and every extent
\* (A,B,C) with A,B,C >= 1 whose box lies inside the grid, _is_free on the 3D
\* prefix sum answers true exactly when every cell of the box
\* [x,x+A) x [y,y+B) x [z,z+C) is free.
C13_IsFreeExact ==
    probe.stage = "queried" =>
        (probe.free <=> \A c \in Box(probe.start, probe.size) : probe.g[c] = 0)

C13_Witness ==
    /\ probe.stage = "queried" /\ probe.free
    /\ probe.d = <<2, 2, 2>>
    /\ probe.start = <<1, 0, 1>> /\ probe.size = <<1, 2, 1>>
    /\ probe.g[<<0, 0, 0>>] = 1 /\ probe.g[<<0, 1, 1>>] = 1
    /\ probe.g[<<1, 1, 0>>] = 1

\* The cell <<x,y,z>> whose torus linear index z*L*W + y*W + x is v.
CellOf(v, d) == <<v % d[1], (v \div d[1]) % d[2], v \div (d[1] * d[2])>>

\* C14: over any sequence of SpaceFillingCurve.allocate calls on one
\* instance, every cell a call returns was free when the call started and
\* was returned by no earlier call: no cell is assigned to two jobs.
C14_SFCNoReuse ==
    (policy = "SpaceFillingCurve" /\ call.made /\ call.res.ok) =>
        \A i \in DOMAIN call.res.mapping :
            /\ call.res.mapping[i] \notin call.taken
            /\ call.before[CellOf(call.res.mapping[i], dims)] = 0
            /\ grid[CellOf(call.res.mapping[i], dims)] = 1

C14_Witness ==
    /\ policy = "SpaceFillingCurve" /\ call.made /\ call.res.ok
    /\ Cardinality(call.taken) >= 3
    /\ Cardinality(DOMAIN call.res.mapping) >= 2
    /\ \E c \in DOMAIN grid : grid[c] = 0

\* The Hilbert index of cell c on the curve of the instance.
HilbertIndex(c) == distances_from_points(c, sfc_order(dims))

\* C15: SpaceFillingCurve.allocate with N = D*T*P returns None exactly when
\* fewer than N cells are free; otherwise job-local index i goes to the free
\* cell with the (i+1)-th smallest Hilbert index among the cells free at the
\* start of the call, so the Hilbert indices of the mapped cells increase
\* strictly with i and no free cell with a smaller Hilbert index than a
\* selected one is left out.
C15_SFCHilbertRank ==
    (policy = "SpaceFillingCurve" /\ call.made) =>
        LET N == Prod3(call.shape)
            F == {c \in DOMAIN call.before : call.before[c] = 0}
            m == call.res.mapping
            cell(i) == CellOf(m[i], dims)
            S == {cell(i) : i \in 0..(N - 1)}
        IN /\ ~call.res.ok <=> Cardinality(F) < N
           /\ ~call.res.ok => grid = call.before
           /\ call.res.ok =>
                 /\ DOMAIN m = 0..(N - 1)
                 /\ \A i \in 0..(N - 1) :
                       /\ cell(i) \in F
                       /\ Cardinality({c \in F : HilbertIndex(c)
                                                < HilbertIndex(cell(i))}) = i
                 /\ \A i, j \in 0..(N - 1) :
                       i < j => HilbertIndex(cell(i)) < HilbertIndex(cell(j))
                 /\ \A c \in F \ S : \A e \in S :
                       HilbertIndex(c) > HilbertIndex(e)

C15_Witness ==
    /\ policy = "SpaceFillingCurve" /\ call.made /\ call.res.ok
    /\ Prod3(call.shape) >= 2
    /\ call.res.mapping[0] > call.res.mapping[1]
    /\ \E c \in DOMAIN grid : call.before[c] = 1
    /\ \E c \in DOMAIN grid : grid[c] = 0

\* The torus indices of the cells that are free in g.
FreeIndices(g, d) ==
    {(c[3] * d[2] * d[1]) + (c[2] * d[1]) + c[1] : c \in {e \in DOMAIN g : g[e] = 0}}

\* C16: L1Clustering.allocate with k = D*T*P equal to the number of free
\* cells returns a mapping whose values are exactly the free cells, whatever
\* the sampling step; with k greater than the number of free cells it
\* returns None.
C16_L1AllFreeCells ==
    (policy = "L1Clustering" /\ call.made) =>
        LET k == Prod3(call.shape)
            F == FreeIndices(call.before, dims)
        IN /\ k = Cardinality(F) =>
                 /\ call.res.ok
                 /\ Values(call.res.mapping) = F
                 /\ DOMAIN call.res.mapping = 0..(k - 1)
                 /\ \A c \in DOMAIN grid : grid[c] = 1
           /\ k > Cardinality(F) =>
                 /\ ~call.res.ok
                 /\ grid = call.before

\* k equal to the number of free cells with a sampling step of 2, on a grid
\* that earlier calls have partly occupied.
C16_Witness ==
    /\ policy = "L1Clustering" /\ call.made /\ call.res.ok
    /\ l1_step(Cardinality(FreeIndices(call.before, dims))) = 2
    /\ Prod3(call.shape) = Cardinality(FreeIndices(call.before, dims))
    /\ \E c \in DOMAIN grid : call.before[c] = 1

\* C17 as stated: in the mapping L1Clustering.allocate returns, the selected
\* cells are assigned to the job-local indices 0..k-1 in ascending order of
\* torus linear index z*L*W + y*W + x: mapping[i] < mapping[j] for i < j.
C17_L1AscendingTorusIndex ==
    (policy = "L1Clustering" /\ call.made /\ call.res.ok) =>
        \A i, j \in DOMAIN call.res.mapping :
            i < j => call.res.mapping[i] < call.res.mapping[j]

\* C17 amended: the selected cells are assigned to the job-local indices
\* 0..k-1 in ascending order of their index in the flattened grid,
\* x*L*H + y*H + z, that is in lexicographic order of (x, y, z); the values
\* of the mapping are the torus linear indices of these cells.
C17_L1AscendingFlatIndex ==
    (policy = "L1Clustering" /\ call.made /\ call.res.ok) =>
        \A i, j \in DOMAIN call.res.mapping :
            i < j =>
                LET a == CellOf(call.res.mapping[i], dims)
                    b == CellOf(call.res.mapping[j], dims)
                IN /\ (a[1] * dims[2] * dims[3]) + (a[2] * dims[3]) + a[3]
                        < (b[1] * dims[2] * dims[3]) + (b[2] * dims[3]) + b[3]
                   /\ \/ a[1] < b[1]
                      \/ a[1] = b[1] /\ a[2] < b[2]
                      \/ a[1] = b[1] /\ a[2] = b[2] /\ a[3] < b[3]

C17_Witness ==
    /\ policy = "L1Clustering" /\ call.made /\ call.res.ok
    /\ dims = <<2, 2, 1>> /\ call.shape = <<2, 2, 1>>
    /\ call.res.mapping = (0 :> 0) @@ (1 :> 2) @@ (2 :> 1) @@ (3 :> 3)

RECURSIVE WeightedCount(_, _, _)
\* The sum of Dt[s] over the cells s of S with Dt[s] < t.
WeightedCount(Dt, S, t) ==
    IF t <= 0 THEN 0
    ELSE ((t - 1) * Cardinality({s \in S : Dt[s] = t - 1}))
         + WeightedCount(Dt, S, t - 1)

\* The largest torus L1 distance there can be on the torus d.
MaxDistance(d) == (d[1] \div 2) + (d[2] \div 2) + (d[3] \div 2)

\* The least total distance to the center that k cells of F can have, Dt
\* being the distance of every cell of F to the center.
MinTotal(Dt, F, k) ==
    LET kth == CHOOSE t \in 0..MaxDistance(dims) :
                   /\ Cardinality({f \in F : Dt[f] <= t}) >= k
                   /\ Cardinality({f \in F : Dt[f] < t}) < k
    IN WeightedCount(Dt, F, kth)
           + ((k - Cardinality({f \in F : Dt[f] < kth})) * kth)

\* C18: the candidate centers are every step-th free cell (in the order of
\* the flattened grid, step = max(1, number of free cells div 100)); the
\* selection used is a set of k free cells closest to the sampled center of
\* minimum total distance, the earliest such center on ties: its total
\* distance to that center is the minimum, and no free cell left out is
\* strictly closer to the center than a selected one.
C18_L1BestSampledCenter ==
    (policy = "L1Clustering" /\ call.made /\ call.res.ok
        /\ Prod3(call.shape) >= 1) =>
        LET k == Prod3(call.shape)
            F == {c \in DOMAIN call.before : call.before[c] = 0}
            step == IF Cardinality(F) \div 100 > 1
                    THEN Cardinality(F) \div 100 ELSE 1
            rank == [c \in F |->
                        Cardinality({f \in F : FlatIndex(f, dims)
                                                  < FlatIndex(c, dims)})] @@ <<>>
            Sampled == {c \in F : rank[c] % step = 0}
            Dist == [c \in Sampled |->
                        [f \in F |-> get_torus_distance(f, c, dims)] @@ <<>>]
                    @@ <<>>
            cost == [c \in Sampled |-> MinTotal(Dist[c], F, k)] @@ <<>>
            best == CHOOSE c \in Sampled :
                        \A e \in Sampled :
                            /\ cost[c] <= cost[e]
                            /\ rank[e] < rank[c] => cost[c] < cost[e]
            Sel == {CellOf(call.res.mapping[i], dims) :
                       i \in DOMAIN call.res.mapping}
        IN /\ Sel \subseteq F
           /\ Cardinality(Sel) = k
           /\ WeightedCount(Dist[best], Sel, MaxDistance(dims) + 1)
                 = cost[best]
           /\ \A u \in F \ Sel : \A e \in Sel :
                 Dist[best][u] >= Dist[best][e]

\* A call where the first free cell is not the center that wins: it is
\* left out of a selection of at least two cells.
C18_Witness ==
    /\ policy = "L1Clustering" /\ call.made /\ call.res.ok
    /\ Prod3(call.shape) >= 2
    /\ \E c \in DOMAIN grid :
          /\ call.before[c] = 0 /\ grid[c] = 0
          /\ \A e \in DOMAIN grid :
                (call.before[e] = 0 /\ grid[e] = 1)
                    => FlatIndex(c, dims) < FlatIndex(e, dims)

\* Some torus dimension or some dimension of some job shape is not an exact
\* multiple of the block size.
NotDivisible ==
    \/ \E i \in 1..3 : dims[i] % bsize # 0
    \/ \E n \in 1..Len(jobs) : \E i \in 1..3 : jobs[n].shape[i] % bsize # 0

\* C19: on the block path (the run having passed the capacity check), if
\* some torus dimension or some dimension of some job shape is not an exact
\* multiple of the block size, the run fails with a configuration error
\* before any block is assigned, and no placement is produced.
C19_BlockDivisibility ==
    (policy = "block" /\ err.kind # "capacity" /\ NotDivisible) =>
        /\ nalloc = 0 /\ placement = <<>> /\ ~output.written
        /\ pc \notin {"dump", "done"}
        /\ pc = "failed" =>
              err.kind \in {"block_exceeds_job_dim",
                            "block_not_dividing_torus"}

\* C20: a --policy that is none of the recognised names is rejected: no job
\* is allocated, no block is assigned and no placement is produced.
C20_UnknownPolicyRejected ==
    policy \notin {"firstfit", "block"} =>
        /\ nalloc = 0 /\ ~call.made
        /\ placement = <<>> /\ ~output.written

\* Some integer of the configuration is zero or negative.
NonPositiveConfig ==
    \/ \E i \in 1..3 : dims[i] <= 0
    \/ \E j \in 1..Len(jobs) : \E i \in 1..3 : jobs[j].shape[i] <= 0
    \/ bsize <= 0

\* C21: a run whose torus dimensions, job shapes or block size contain a
\* non-positive value makes no allocation and writes no output, never ends
\* normally, and is reported neither as a capacity error nor as a placement
\* failure of a job.
C21_NonPositiveRejected ==
    NonPositiveConfig =>
        /\ nalloc = 0
        /\ output = NotWritten
        /\ pc # "done"
        /\ err.kind \notin {"capacity", "placement"}

C23_WholeTorusBijection ==
    /\ built
    /\ call.made =>
          /\ call.res.ok
          /\ DOMAIN call.res.mapping = 0..(Prod3(dims) - 1)
          /\ Injective(call.res.mapping)
          /\ Values(call.res.mapping) = TorusIndices(dims)

\* A step of the run that calls allocate (the First-Fit path is the only one
\* that does; nalloc counts the calls made so far).
AllocateCalled == policy = "firstfit" /\ nalloc' # nalloc

\* C24: in a run that places jobs with allocate, the n-th call is made for
\* the n-th job of the job collection, with that job's shape, on the grid
\* the earlier calls of the run left (the empty grid for the first call);
\* no call follows a call that returned None; the grid changes in no other
\* step; and a run that reaches its end has made exactly one call per job.
C24_OneCallPerJobInOrder ==
    /\ [][AllocateCalled =>
             /\ nalloc' = nalloc + 1
             /\ nalloc' = nextjob /\ nextjob \in 1..Len(jobs)
             /\ call'.made /\ call'.shape = jobs[nextjob].shape
             /\ call'.before = grid
             /\ (nalloc = 0) = (~call.made)
             /\ nalloc = 0 => grid = EmptyGrid(dims)
             /\ call.made => call.res.ok]_vars
    /\ [][(policy = "firstfit" /\ pc = "firstfit" /\ grid' # grid)
             => AllocateCalled]_vars
    /\ [](policy = "firstfit" /\ pc \in {"dump", "done"}
             => nalloc = Len(jobs))

\* A run whose second call returned None after a first call that placed
\* its job.
C24_Witness ==
    /\ policy = "firstfit" /\ pc = "failed" /\ nalloc = 2
    /\ Len(jobs) = 2 /\ ~call.res.ok

\* Both calls have returned a mapping.
BothPlaced == \A t \in Callers : probe[t].pc = "done" /\ probe[t].res.ok

\* The torus cells that both mappings hold.
SharedCells == Values(probe[1].res.mapping) \cap Values(probe[2].res.mapping)

\* Every call read the occupancy before any call had marked.
ReadBeforeAnyMark == \A t \in Callers : probe[t].seen = 0

\* C25: of two allocate calls on one grid that both return a mapping, if
\* one ran its search and marking before the other read the occupancy the
\* two mappings share no torus cell, and if both read the occupancy before
\* either marked the two mappings share a cell.
C25_DisjointNeedsSequentialCalls ==
    BothPlaced =>
        /\ ~ReadBeforeAnyMark => SharedCells = {}
        /\ ReadBeforeAnyMark => SharedCells # {}

\* Both calls read the occupancy before either marked, and both hold the
\* same torus cell.
C25_Witness == BothPlaced /\ ReadBeforeAnyMark /\ SharedCells # {}

\* C26: FirstFit.allocate returns None exactly when no origin (x,y,z) with
\* x+D <= W, y+T <= L, z+P <= H has its whole D x T x P box free in the
\* grid as the call found it (the shape taken as given, the box not
\* wrapping); when such an origin exists the call returns a mapping, also
\* when (0,0,0) is the only one.
C26_FirstFitNoneIffNoOrigin ==
    (policy = "FirstFit" /\ call.made) =>
        (~call.res.ok <=> ValidOrigins(call.before, dims, call.shape) = {})

\* A call that succeeded where (0,0,0) was the only origin with a free box:
\* a job of several nodes filling the whole torus.
C26_Witness ==
    /\ policy = "FirstFit" /\ call.made /\ call.res.ok
    /\ Prod3(call.shape) >= 4
    /\ ValidOrigins(call.before, dims, call.shape) = {<<0, 0, 0>>}

\* C27: for each of the three policies, when an allocate call returns None
\* the occupancy grid after the call is, cell for cell, the grid the call
\* found.
C27_NoneLeavesGrid ==
    (call.made /\ ~call.res.ok) => grid = call.before

\* A call that returned None on a grid with free and with occupied cells.
C27_Witness ==
    /\ policy = "SpaceFillingCurve" /\ call.made /\ ~call.res.ok
    /\ \E c \in DOMAIN grid : grid[c] = 0
    /\ \E c \in DOMAIN grid : grid[c] = 1

\* C28: for every torus with W, L, H >= 1 the SpaceFillingCurve policy can
\* be set up (also when max(W,L,H) = 1), its order P is the least
\* non-negative integer with 2^P >= max(W,L,H), every torus coordinate is
\* below 2^P, and distinct free cells have distinct Hilbert indices.
C28_HilbertOrder ==
    policy = "SpaceFillingCurve" =>
        LET P == sfc_order(dims)
            m == Max2(dims[1], Max2(dims[2], dims[3]))
            free == {c \in DOMAIN grid : grid[c] = 0}
        IN /\ built
           /\ Pow2(P) >= m
           /\ P > 0 => Pow2(P - 1) < m
           /\ \A c \in DOMAIN grid : \A i \in 1..3 : c[i] < Pow2(P)
           /\ \A c1, c2 \in free :
                 c1 # c2 => HilbertIndex(c1) # HilbertIndex(c2)

\* A block run whose torus dims and job shapes are all exact multiples of
\* the block size and whose total job volume is within the capacity.
BlockRunWellFormed ==
    /\ policy # "firstfit" /\ bsize >= 1
    /\ \A i \in 1..3 : dims[i] % bsize = 0
    /\ \A j \in 1..Len(jobs) : \A i \in 1..3 : jobs[j].shape[i] % bsize = 0
    /\ total_job_size(jobs, Len(jobs)) <= Prod3(dims)

\* The torus nodes of the blocks still in the list.
NodesLeft == UNION {Values(tblocks[i]) : i \in 1..Len(tblocks)}

\* C29: in such a run, with or without --random, block_placement never
\* takes a block from an empty list and the run fails in no other way;
\* after n job blocks the list of torus blocks is n shorter than
\* init_torus_blocks made it; and no torus block is given twice: the blocks
\* still in the list hold no node already in the table, and the table
\* gives no torus node to two job nodes.
C29_BlockPopSafe ==
    BlockRunWellFormed =>
        /\ pc # "failed"
        /\ pc \in {"block", "dump", "done"} =>
              /\ Len(tblocks) = NumBlocks(dims, bsize) - nalloc
              /\ Len(tblocks) >= Len(jblocks)
              /\ NodesLeft \cap Values(placement) = {}
              /\ Injective(placement)
              /\ Cardinality(DOMAIN placement) = nalloc * bsize * bsize * bsize

\* A --random run of two blocks of size 2 in which the first job got a
\* block other than the first of the list.
C29_Witness ==
    /\ BlockRunWellFormed /\ israndom /\ bsize = 2
    /\ pc = "done" /\ nalloc = 2
    /\ placement["A-0"] # 0

\* placement[key] of the table given as items.
PlacementAt(items, key) ==
    items[CHOOSE i \in 1..Len(items) : items[i].key = key].value

\* {i -> placement['J-i'] : 0 <= i < volume(J)} for the job j of the list.
OwnMap(j) ==
    [i \in 0..(probe.jobs[j].volume - 1) |->
        PlacementAt(probe.placement_map, key_chars(probe.jobs[j].name, i))]

\* C30: for a placement table built from jobs with unique names (names with
\* a dash included, such as 'J' next to 'J-1'), build_job_xpu_map returns,
\* for every job J, exactly the map {i -> placement['J-i']} over the local
\* indices 0..volume(J)-1.
C30_JobXpuMapExact ==
    /\ probe.stage # "ValueError"
    /\ probe.stage = "mapped" =>
          \A j \in 1..Len(probe.jobs) :
              probe.job_xpu_map[probe.jobs[j].name] = OwnMap(j)

=============================================================================
